---- MODULE Spec2Model ----
(***************************************************************************)
(* Model of ukpostcodeparser.parser.parse_uk_postcode.                     *)
(*                                                                         *)
(* A Python string is modelled as a sequence of one-character strings, so  *)
(* 'CR0' is <<"C", "R", "0">>.  The pattern tables are the tables of       *)
(* parser.py, character for character.  The regular expressions are        *)
(* modelled by what re.match does with them: the alternatives of           *)
(* OUTCODE_PATTERN are tried in the order the backtracking matcher tries   *)
(* them, and the first one whose continuation matches wins.                *)
(***************************************************************************)
EXTENDS Integers, Sequences, FiniteSets, TLC

(***************************************************************************)
(* Bounds of the model.  The caller's inputs are all the strings of at     *)
(* most MaxInputLen characters over three small alphabets.  Each alphabet  *)
(* is chosen so that the tables of parser.py give its strings every shape  *)
(* the parser distinguishes:                                               *)
(*   ForcesAlphabet  B is a one-letter zone, BB a two-letter zone, BF1 the *)
(*                   special case; B and F are third-position and inward   *)
(*                   letters, B is a fourth-position letter, F is not;     *)
(*   TypedAlphabet   input as typed: spaces, a lower-case letter;          *)
(*   GiroAlphabet    the letters of GIR 0AA, after the zone G or after GIR *)
(*                   (G is a one-letter zone; I is no inward letter);      *)
(*   TabAlphabet     a whitespace character that is not the space.         *)
(* TestPostcodes adds postcodes that the repository's tests parse.         *)
(***************************************************************************)
MaxInputLen == 8

ForcesAlphabet == {"B", "F", "1"}

TypedAlphabet == {" ", "b", "1"}

GiroAlphabet == {"G", "I", "R", "0", "A"}

TabAlphabet == {"\t", "B", "1"}

(***************************************************************************)
(* The pattern tables, parser.py lines 18-38.                              *)
(***************************************************************************)
POSTAL_ZONES ==
    << <<"A","B">>, <<"A","L">>, <<"B">>,     <<"B","A">>, <<"B","B">>,
       <<"B","D">>, <<"B","H">>, <<"B","L">>, <<"B","N">>, <<"B","R">>,
       <<"B","S">>, <<"B","T">>, <<"C","A">>, <<"C","B">>, <<"C","F">>,
       <<"C","H">>, <<"C","M">>, <<"C","O">>, <<"C","R">>, <<"C","T">>,
       <<"C","V">>, <<"C","W">>, <<"D","A">>, <<"D","D">>, <<"D","E">>,
       <<"D","G">>, <<"D","H">>, <<"D","L">>, <<"D","N">>, <<"D","T">>,
       <<"D","Y">>, <<"E">>,     <<"E","C">>, <<"E","H">>, <<"E","N">>,
       <<"E","X">>, <<"F","K">>, <<"F","Y">>, <<"G">>,     <<"G","L">>,
       <<"G","Y">>, <<"G","U">>, <<"H","A">>, <<"H","D">>, <<"H","G">>,
       <<"H","P">>, <<"H","R">>, <<"H","S">>, <<"H","U">>, <<"H","X">>,
       <<"I","G">>, <<"I","M">>, <<"I","P">>, <<"I","V">>, <<"J","E">>,
       <<"K","A">>, <<"K","T">>, <<"K","W">>, <<"K","Y">>, <<"L">>,
       <<"L","A">>, <<"L","D">>, <<"L","E">>, <<"L","L">>, <<"L","N">>,
       <<"L","S">>, <<"L","U">>, <<"M">>,     <<"M","E">>, <<"M","K">>,
       <<"M","L">>, <<"N">>,     <<"N","E">>, <<"N","G">>, <<"N","N">>,
       <<"N","P">>, <<"N","R">>, <<"N","W">>, <<"O","L">>, <<"O","X">>,
       <<"P","A">>, <<"P","E">>, <<"P","H">>, <<"P","L">>, <<"P","O">>,
       <<"P","R">>, <<"R","G">>, <<"R","H">>, <<"R","M">>, <<"S">>,
       <<"S","A">>, <<"S","E">>, <<"S","G">>, <<"S","K">>, <<"S","L">>,
       <<"S","M">>, <<"S","N">>, <<"S","O">>, <<"S","P">>, <<"S","R">>,
       <<"S","S">>, <<"S","T">>, <<"S","W">>, <<"S","Y">>, <<"T","A">>,
       <<"T","D">>, <<"T","F">>, <<"T","N">>, <<"T","Q">>, <<"T","R">>,
       <<"T","S">>, <<"T","W">>, <<"U","B">>, <<"W">>,     <<"W","A">>,
       <<"W","C">>, <<"W","D">>, <<"W","F">>, <<"W","N">>, <<"W","R">>,
       <<"W","S">>, <<"W","V">>, <<"Y","O">>, <<"Z","E">> >>

IsOneChar(zone) == Len(zone) = 1

IsTwoChars(zone) == Len(zone) = 2

POSTAL_ZONES_ONE_CHAR == SelectSeq(POSTAL_ZONES, IsOneChar)

POSTAL_ZONES_TWO_CHARS == SelectSeq(POSTAL_ZONES, IsTwoChars)

THIRD_POS_CHARS ==
    {"A", "B", "C", "D", "E", "F", "G", "H", "J", "K", "M",
     "N", "P", "R", "S", "T", "U", "V", "W", "X", "Y"}

FOURTH_POS_CHARS ==
    {"A", "B", "E", "H", "M", "N", "P", "R", "V", "W", "X", "Y"}

INCODE_CHARS ==
    {"A", "B", "D", "E", "F", "G", "H", "J", "L", "N", "P", "Q",
     "R", "S", "T", "U", "W", "X", "Y", "Z"}

(***************************************************************************)
(* The character classes of the re module that the patterns use: \d and    *)
(* \s, over the ASCII characters (the vertical tab, which a TLA+ string    *)
(* cannot hold, is left out of \s).                                        *)
(***************************************************************************)
Digits == {"0", "1", "2", "3", "4", "5", "6", "7", "8", "9"}

Whitespace == {" ", "\t", "\n", "\r", "\f"}

(***************************************************************************)
(* str.upper() and str.replace(' ', ''), parser.py line 101.               *)
(***************************************************************************)
LowerLetters ==
    <<"a", "b", "c", "d", "e", "f", "g", "h", "i", "j", "k", "l", "m",
      "n", "o", "p", "q", "r", "s", "t", "u", "v", "w", "x", "y", "z">>

UpperLetters ==
    <<"A", "B", "C", "D", "E", "F", "G", "H", "I", "J", "K", "L", "M",
      "N", "O", "P", "Q", "R", "S", "T", "U", "V", "W", "X", "Y", "Z">>

\* the upper-case letter of every lower-case letter
UpperOf ==
    [c \in {LowerLetters[i] : i \in 1..Len(LowerLetters)} |->
        UpperLetters[CHOOSE i \in 1..Len(LowerLetters) : LowerLetters[i] = c]]

UpperChar(c) == IF c \in DOMAIN UpperOf THEN UpperOf[c] ELSE c

Upper(s) == [i \in 1..Len(s) |-> UpperChar(s[i])]

NotSpace(c) == c # " "

RemoveSpaces(s) == SelectSeq(s, NotSpace)

RECURSIVE TrimLeft(_)
TrimLeft(s) == IF s # <<>> /\ Head(s) = " " THEN TrimLeft(Tail(s)) ELSE s

RECURSIVE TrimRight(_)
TrimRight(s) ==
    IF s # <<>> /\ s[Len(s)] = " " THEN TrimRight(SubSeq(s, 1, Len(s) - 1)) ELSE s

\* Normalize with the spaces trimmed at the ends only: postcode.strip(' ').upper()
Normalize_TrimOnly(s) == Upper(TrimRight(TrimLeft(s)))

\* Normalize without the upper-casing: postcode.replace(' ', '')
Normalize_NoUpper(s) == RemoveSpaces(s)

Normalize(s) == Upper(RemoveSpaces(s))


(***************************************************************************)
(* The module's state after import: what the two compiled patterns of      *)
(* parser.py lines 61-63 were built from, and what every call reads.       *)
(***************************************************************************)
VARIABLE compiled

\* POSTCODE_REGEX and STANDALONE_OUTCODE_REGEX as import leaves them
Compiled ==
    [one_char  |-> POSTAL_ZONES_ONE_CHAR,
     third     |-> THIRD_POS_CHARS,
     two_chars |-> POSTAL_ZONES_TWO_CHARS,
     fourth    |-> FOURTH_POS_CHARS,
     incode    |-> INCODE_CHARS]

(***************************************************************************)
(* re.match with OUTCODE_PATTERN, parser.py lines 39-52.  The matcher is   *)
(* a backtracking one: OutcodeEnds(s) lists, in the order the matcher      *)
(* reaches them, the lengths of the prefixes of s that group 1 can take.   *)
(***************************************************************************)
StartsWith(s, prefix) ==
    /\ Len(s) >= Len(prefix)
    /\ \A i \in 1..Len(prefix) : s[i] = prefix[i]

\* DistrictEnds with \d{1,2} never giving back its second digit
DistrictEnds_NoBacktrack(s, n, chars) ==
    (IF n + 2 <= Len(s) /\ s[n + 1] \in Digits /\ s[n + 2] \in chars
     THEN <<n + 2>> ELSE <<>>)
    \o (IF n + 2 <= Len(s) /\ s[n + 1] \in Digits /\ s[n + 2] \in Digits
        THEN <<n + 2>>
        ELSE IF n + 1 <= Len(s) /\ s[n + 1] \in Digits
        THEN <<n + 1>> ELSE <<>>)

\* (?:\d[chars]|\d{1,2}) tried after the first n characters of s
DistrictEnds(s, n, chars) ==
    (IF n + 2 <= Len(s) /\ s[n + 1] \in Digits /\ s[n + 2] \in chars
     THEN <<n + 2>> ELSE <<>>)
    \o (IF n + 2 <= Len(s) /\ s[n + 1] \in Digits /\ s[n + 2] \in Digits
        THEN <<n + 2>> ELSE <<>>)
    \o (IF n + 1 <= Len(s) /\ s[n + 1] \in Digits
        THEN <<n + 1>> ELSE <<>>)

RECURSIVE AllDistrictEnds(_, _, _)
AllDistrictEnds(s, zones, chars) ==
    IF zones = <<>> THEN <<>>
    ELSE DistrictEnds(s, Len(Head(zones)), chars)
         \o AllDistrictEnds(s, Tail(zones), chars)

\* (?:zone1|zone2|...)(?:\d[chars]|\d{1,2}): the zones that s starts with,
\* in the order of the alternation, each followed by the district part
ZoneEnds(s, zones, chars) ==
    AllDistrictEnds(s, SelectSeq(zones, LAMBDA zone : StartsWith(s, zone)), chars)

BF1 == <<"B", "F", "1">>

OutcodeEnds(s) ==
    ZoneEnds(s, compiled.one_char, compiled.third)
    \o ZoneEnds(s, compiled.two_chars, compiled.fourth)
    \o (IF StartsWith(s, BF1) THEN <<Len(BF1)>> ELSE <<>>)

\* IncodeAt with any capital letter taken as an inward letter
IncodeAt_AnyLetter(s, n) ==
    /\ n + 3 <= Len(s)
    /\ s[n + 1] \in Digits
    /\ \E i \in 1..Len(UpperLetters) : UpperLetters[i] = s[n + 2]
    /\ \E i \in 1..Len(UpperLetters) : UpperLetters[i] = s[n + 3]

\* INCODE_PATTERN, parser.py lines 53-57, tried after the first n characters
IncodeAt(s, n) ==
    /\ n + 3 <= Len(s)
    /\ s[n + 1] \in Digits
    /\ s[n + 2] \in compiled.incode
    /\ s[n + 3] \in compiled.incode

\* \s*$ tried after the first n characters
OnlyWhitespaceAfter(s, n) ==
    \A i \in (n + 1)..Len(s) : s[i] \in Whitespace

NoMatch == [matched |-> FALSE, group1 |-> <<>>, group2 |-> <<>>]

\* POSTCODE_REGEX.match(s), parser.py lines 58, 62 and 110
POSTCODE_REGEX(s) ==
    LET ends == SelectSeq(OutcodeEnds(s), LAMBDA n : IncodeAt(s, n))
    IN  IF ends = <<>> THEN NoMatch
        ELSE [matched |-> TRUE,
              group1  |-> SubSeq(s, 1, ends[1]),
              group2  |-> SubSeq(s, ends[1] + 1, ends[1] + 3)]

\* STANDALONE_OUTCODE_REGEX.match(s), parser.py lines 59, 63 and 115
STANDALONE_OUTCODE_REGEX(s) ==
    LET ends == SelectSeq(OutcodeEnds(s), LAMBDA n : OnlyWhitespaceAfter(s, n))
    IN  IF ends = <<>> THEN NoMatch
        ELSE [matched |-> TRUE,
              group1  |-> SubSeq(s, 1, ends[1]),
              group2  |-> <<>>]

(***************************************************************************)
(* The outcomes of a call: a returned pair, or one of the three exceptions *)
(* of exceptions.py.  ExceptionBase gives each class its base class.       *)
(***************************************************************************)
\* ExceptionBase with MaxLengthExceededError(ValueError)
ExceptionBase_Flat ==
    [InvalidPostcodeError   |-> "ValueError",
     MaxLengthExceededError |-> "ValueError",
     IncodeNotFoundError    |-> "InvalidPostcodeError"]

ExceptionBase ==
    [InvalidPostcodeError   |-> "ValueError",
     MaxLengthExceededError |-> "InvalidPostcodeError",
     IncodeNotFoundError    |-> "InvalidPostcodeError"]

RECURSIVE IsSubclass(_, _)
\* issubclass(exception, class)
IsSubclass(exception, class) ==
    \/ exception = class
    \/ /\ exception \in DOMAIN ExceptionBase
       /\ IsSubclass(ExceptionBase[exception], class)

Return(outcode, incode) ==
    [raised |-> "None", outcode |-> outcode, incode |-> incode]

Raise(exception) ==
    [raised |-> exception, outcode |-> <<>>, incode |-> <<>>]

MAX_LENGTH == 7

GIR == <<"G", "I", "R">>

GIR0AA == <<"G", "I", "R", "0", "A", "A">>

\* Strict with the outcode-only match returning whatever incode_mandatory is
Strict_OutcodeIgnoresMandatory(postcode, incode_mandatory) ==
    LET postcode_match == POSTCODE_REGEX(postcode)
        outcode_match  == STANDALONE_OUTCODE_REGEX(postcode)
    IN  IF postcode_match.matched
        THEN Return(postcode_match.group1, postcode_match.group2)
        ELSE IF outcode_match.matched
        THEN Return(outcode_match.group1, <<>>)
        ELSE IF postcode = GIR0AA
        THEN Return(GIR, <<"0", "A", "A">>)
        ELSE IF postcode = GIR
        THEN IF incode_mandatory
             THEN Raise("IncodeNotFoundError")
             ELSE Return(GIR, <<>>)
        ELSE Raise("InvalidPostcodeError")

\* Strict with the Girobank test postcode.startswith('GIR0AA')
Strict_GiroPrefix(postcode, incode_mandatory) ==
    LET postcode_match == POSTCODE_REGEX(postcode)
        outcode_match  == STANDALONE_OUTCODE_REGEX(postcode)
    IN  IF postcode_match.matched
        THEN Return(postcode_match.group1, postcode_match.group2)
        ELSE IF outcode_match.matched
        THEN IF incode_mandatory
             THEN Raise("IncodeNotFoundError")
             ELSE Return(outcode_match.group1, <<>>)
        ELSE IF Len(postcode) >= Len(GIR0AA)
                /\ SubSeq(postcode, 1, Len(GIR0AA)) = GIR0AA
        THEN Return(GIR, <<"0", "A", "A">>)
        ELSE IF postcode = GIR
        THEN IF incode_mandatory
             THEN Raise("IncodeNotFoundError")
             ELSE Return(GIR, <<>>)
        ELSE Raise("InvalidPostcodeError")

\* Strict with GIR alone returned whatever incode_mandatory is
Strict_GirIgnoresMandatory(postcode, incode_mandatory) ==
    LET postcode_match == POSTCODE_REGEX(postcode)
        outcode_match  == STANDALONE_OUTCODE_REGEX(postcode)
    IN  IF postcode_match.matched
        THEN Return(postcode_match.group1, postcode_match.group2)
        ELSE IF outcode_match.matched
        THEN IF incode_mandatory
             THEN Raise("IncodeNotFoundError")
             ELSE Return(outcode_match.group1, <<>>)
        ELSE IF postcode = GIR0AA
        THEN Return(GIR, <<"0", "A", "A">>)
        ELSE IF postcode = GIR
        THEN Return(GIR, <<>>)
        ELSE Raise("InvalidPostcodeError")

\* the strict branch, parser.py lines 107-134, on the normalized postcode
Strict(postcode, incode_mandatory) ==
    LET postcode_match == POSTCODE_REGEX(postcode)
        outcode_match  == STANDALONE_OUTCODE_REGEX(postcode)
    IN  IF postcode_match.matched
        THEN Return(postcode_match.group1, postcode_match.group2)
        ELSE IF outcode_match.matched
        THEN IF incode_mandatory
             THEN Raise("IncodeNotFoundError")
             ELSE Return(outcode_match.group1, <<>>)
        ELSE IF postcode = GIR0AA
        THEN Return(GIR, <<"0", "A", "A">>)
        ELSE IF postcode = GIR
        THEN IF incode_mandatory
             THEN Raise("IncodeNotFoundError")
             ELSE Return(GIR, <<>>)
        ELSE Raise("InvalidPostcodeError")

\* Chop with the outcode-only test len(postcode) <= 5
Chop_Threshold5(postcode, incode_mandatory) ==
    IF Len(postcode) <= 5
    THEN IF incode_mandatory
         THEN Raise("IncodeNotFoundError")
         ELSE Return(postcode, <<>>)
    ELSE Return(SubSeq(postcode, 1, Len(postcode) - 3),
                SubSeq(postcode, Len(postcode) - 2, Len(postcode)))

\* Chop with the outcode-only test len(postcode) < 4
Chop_Threshold3(postcode, incode_mandatory) ==
    IF Len(postcode) < 4
    THEN IF incode_mandatory
         THEN Raise("IncodeNotFoundError")
         ELSE Return(postcode, <<>>)
    ELSE Return(SubSeq(postcode, 1, Len(postcode) - 3),
                SubSeq(postcode, Len(postcode) - 2, Len(postcode)))

\* Chop raising the base class where the incode is missing
Chop_RaisesBaseClass(postcode, incode_mandatory) ==
    IF Len(postcode) <= 4
    THEN IF incode_mandatory
         THEN Raise("InvalidPostcodeError")
         ELSE Return(postcode, <<>>)
    ELSE Return(SubSeq(postcode, 1, Len(postcode) - 3),
                SubSeq(postcode, Len(postcode) - 2, Len(postcode)))

\* Chop with the incode sliced postcode[-2:]
Chop_LastTwo(postcode, incode_mandatory) ==
    IF Len(postcode) <= 4
    THEN IF incode_mandatory
         THEN Raise("IncodeNotFoundError")
         ELSE Return(postcode, <<>>)
    ELSE Return(SubSeq(postcode, 1, Len(postcode) - 3),
                SubSeq(postcode, Len(postcode) - 1, Len(postcode)))

\* the non-strict branch, parser.py lines 136-146, on the normalized postcode
Chop(postcode, incode_mandatory) ==
    IF Len(postcode) <= 4
    THEN IF incode_mandatory
         THEN Raise("IncodeNotFoundError")
         ELSE Return(postcode, <<>>)
    ELSE Return(SubSeq(postcode, 1, Len(postcode) - 3),
                SubSeq(postcode, Len(postcode) - 2, Len(postcode)))

\* parse_uk_postcode with the length of the input taken before it is normalized
parse_uk_postcode_RawLength(raw, strict_, incode_mandatory_) ==
    LET normalized == Normalize(raw)
    IN  IF Len(raw) > MAX_LENGTH
        THEN Raise("MaxLengthExceededError")
        ELSE IF strict_
        THEN Strict(normalized, incode_mandatory_)
        ELSE Chop(normalized, incode_mandatory_)

\* parse_uk_postcode with the length test len(postcode) > 8
parse_uk_postcode_OffByOne(raw, strict_, incode_mandatory_) ==
    LET normalized == Normalize(raw)
    IN  IF Len(normalized) > MAX_LENGTH + 1
        THEN Raise("MaxLengthExceededError")
        ELSE IF strict_
        THEN Strict(normalized, incode_mandatory_)
        ELSE Chop(normalized, incode_mandatory_)

\* parse_uk_postcode(postcode, strict, incode_mandatory), parser.py lines 101-146
parse_uk_postcode(raw, strict_, incode_mandatory_) ==
    LET normalized == Normalize(raw)
    IN  IF Len(normalized) > MAX_LENGTH
        THEN Raise("MaxLengthExceededError")
        ELSE IF strict_
        THEN Strict(normalized, incode_mandatory_)
        ELSE Chop(normalized, incode_mandatory_)

(***************************************************************************)
(* The state machine: a caller holds the three arguments of one call; the  *)
(* call runs and leaves its outcome.  other is a second caller, whose call *)
(* may be in progress while the first one calls.                           *)
(***************************************************************************)
VARIABLES postcode, strict, incode_mandatory, pc, result, other

vars == <<postcode, strict, incode_mandatory, pc, result, compiled, other>>

Strings(alphabet, n) == UNION {[1..k -> alphabet] : k \in 0..n}

GiroHeads == {<<"G">>, GIR}

\* postcodes of test/parser.py
TestPostcodes ==
    {<<"c", "r", "0", " ", "2", "y", "r">>,
     <<"C", "R", "0", " ", "2", "Y", "R">>,
     <<"c", "r", "0", "2", "y", "r">>,
     <<"s", "w", "1", "9">>,
     <<"c", "r", "0">>,
     <<"x", "x", "0", " ", "2", "y", "r">>,
     <<"3", "r", "0", " ", "a", "y", "r">>,
     <<"3", "r", "0", " ", "2", "2", "r">>,
     <<"g", "i", "r">>,
     <<"g", "i", "r", " ", "0", "a", "a">>,
     <<"w", "1", "m", " ", "4", "z", "z">>,
     <<"w", "1", "m">>,
     <<"d", "n", "1", "6", "9", "a", "a", "A">>,
     <<"N", "1", "P", " ", "2", "Z", "X">>,
     <<"n", "1", "p">>,
     <<"n", "1", "p", "1", "g", "w">>,
     <<"N", "P", "T", " ", "0", "D", "T">>,
     <<"n", "p", "t">>,
     <<"N", "1", "6">>,
     <<"N", "1", "6", " ", "8", "Q", "S", "S", "S">>,
     <<"B", "F", "1", " ", "4", "B", "B">>,
     <<"B", "F", "2", " ", "4", "B", "B">>,
     <<"M", "3", "4", " ", "4", "C", "B">>}

Inputs ==
    Strings(ForcesAlphabet, MaxInputLen)
    \cup Strings(TypedAlphabet, MaxInputLen)
    \cup {head \o tail : head \in GiroHeads,
                          tail \in Strings(GiroAlphabet, MaxInputLen - Len(GIR))}
    \cup Strings(TabAlphabet, MaxInputLen - 2)
    \cup TestPostcodes

NoResult == [raised |-> "NotCalled", outcode |-> <<>>, incode |-> <<>>]

\* a caller that is not calling; strict=True, incode_mandatory=True are the defaults
Idle ==
    [pc |-> "idle", postcode |-> <<>>, strict |-> TRUE,
     incode_mandatory |-> TRUE, result |-> NoResult]

Init ==
    /\ postcode \in Inputs
    /\ strict \in BOOLEAN
    /\ incode_mandatory \in BOOLEAN
    /\ pc = "call"
    /\ result = NoResult
    /\ compiled = Compiled
    /\ other = Idle

\* Parse with the call taking a zone off the compiled alternation
Parse_DropsZone ==
    /\ pc = "call"
    /\ result' = parse_uk_postcode(postcode, strict, incode_mandatory)
    /\ pc' = "done"
    /\ compiled' = [compiled EXCEPT !.two_chars = Tail(@)]
    /\ UNCHANGED <<postcode, strict, incode_mandatory, other>>

\* one call of parse_uk_postcode: it runs to its return or to its raise
Parse ==
    /\ pc = "call"
    /\ result' = parse_uk_postcode(postcode, strict, incode_mandatory)
    /\ pc' = "done"
    /\ UNCHANGED <<postcode, strict, incode_mandatory, compiled, other>>

Next == Parse

Spec == Init /\ [][Next]_vars

(***************************************************************************)
(* Calls one after the other and calls that overlap.  The first caller     *)
(* calls again and again with any arguments; the second caller's call      *)
(* starts (OtherCall), reads the compiled patterns and ends (OtherParse)   *)
(* at a later step, so calls of the first caller fall inside it.           *)
(***************************************************************************)
CallInputs ==
    {<<"c", "r", "0", " ", "2", "y", "r">>, <<"c", "r", "0">>,
     <<"s", "w", "1", "9">>, <<"x", "x", "0", " ", "2", "y", "r">>,
     <<"g", "i", "r", " ", "0", "a", "a">>,
     <<"d", "n", "1", "6", "9", "a", "a", "A">>}

InitCalls ==
    /\ postcode \in CallInputs
    /\ strict \in BOOLEAN
    /\ incode_mandatory \in BOOLEAN
    /\ pc = "call"
    /\ result = NoResult
    /\ compiled = Compiled
    /\ other = Idle

\* the first caller takes the arguments of its next call
Again ==
    /\ pc = "done"
    /\ postcode' \in CallInputs
    /\ strict' \in BOOLEAN
    /\ incode_mandatory' \in BOOLEAN
    /\ pc' = "call"
    /\ result' = NoResult
    /\ UNCHANGED <<compiled, other>>

\* the second caller enters parse_uk_postcode
OtherCall ==
    /\ other.pc = "idle"
    /\ \E p \in CallInputs, s \in BOOLEAN, m \in BOOLEAN :
           other' = [pc |-> "running", postcode |-> p, strict |-> s,
                     incode_mandatory |-> m, result |-> NoResult]
    /\ UNCHANGED <<postcode, strict, incode_mandatory, pc, result, compiled>>

\* the second caller's call matches against the compiled patterns and ends
OtherParse ==
    /\ other.pc = "running"
    /\ other' = [other EXCEPT
                    !.pc = "done",
                    !.result = parse_uk_postcode(other.postcode, other.strict,
                                                 other.incode_mandatory)]
    /\ UNCHANGED <<postcode, strict, incode_mandatory, pc, result, compiled>>

\* the second caller has its outcome and may call again
OtherReturn ==
    /\ other.pc = "done"
    /\ other' = Idle
    /\ UNCHANGED <<postcode, strict, incode_mandatory, pc, result, compiled>>

NextCalls == Parse \/ Again \/ OtherCall \/ OtherParse \/ OtherReturn

SpecCalls == InitCalls /\ [][NextCalls]_vars

(***************************************************************************)
(* The vocabulary of the properties: the postcode grammar said as shapes,  *)
(* not as a matcher.                                                       *)
(***************************************************************************)
Zones(k) == {POSTAL_ZONES[i] : i \in {j \in 1..Len(POSTAL_ZONES) : Len(POSTAL_ZONES[j]) = k}}

OneLetterZones == Zones(1)

TwoLetterZones == Zones(2)

AllDigits(s, from) == \A i \in from..Len(s) : s[i] \in Digits

\* one of the five shapes of an outward code
IsOutward(o) ==
    \/ /\ Len(o) = 3
       /\ <<o[1]>> \in OneLetterZones
       /\ o[2] \in Digits
       /\ o[3] \in THIRD_POS_CHARS
    \/ /\ Len(o) \in {2, 3}
       /\ <<o[1]>> \in OneLetterZones
       /\ AllDigits(o, 2)
    \/ /\ Len(o) = 4
       /\ <<o[1], o[2]>> \in TwoLetterZones
       /\ o[3] \in Digits
       /\ o[4] \in FOURTH_POS_CHARS
    \/ /\ Len(o) \in {3, 4}
       /\ <<o[1], o[2]>> \in TwoLetterZones
       /\ AllDigits(o, 3)
    \/ o = BF1

\* a digit followed by two letters of the inward alphabet
IsInward(i) ==
    /\ Len(i) = 3
    /\ i[1] \in Digits
    /\ i[2] \in INCODE_CHARS
    /\ i[3] \in INCODE_CHARS

\* the places where s splits into an outward code and an inward code
Splits(s) ==
    {k \in 0..Len(s) : /\ IsOutward(SubSeq(s, 1, k))
                       /\ IsInward(SubSeq(s, k + 1, Len(s)))}

Done == pc = "done"

Returned == Done /\ result.raised = "None"

Raised(exception) == Done /\ result.raised = exception

Normalized == Normalize(postcode)

ZeroAA == <<"0", "A", "A">>

(***************************************************************************)
(* C1: a call fails with MaxLengthExceeded exactly when the input with its *)
(* spaces removed has more than 7 characters, whatever strict and          *)
(* incode_mandatory are and whatever the input would otherwise yield.      *)
(***************************************************************************)
C1_MaxLengthFirst ==
    Done => (result.raised = "MaxLengthExceededError"
             <=> Len(RemoveSpaces(postcode)) > 7)

\* an over-length input that starts with a valid full postcode
C1_Witness ==
    /\ Raised("MaxLengthExceededError")
    /\ strict
    /\ Splits(SubSeq(Normalized, 1, 5)) # {}

(***************************************************************************)
(* C2: in strict mode an input that is an outward code of one of the five  *)
(* shapes followed by an inward code is returned as exactly that pair, at  *)
(* every place where it splits so.                                         *)
(***************************************************************************)
C2_StrictSplitsGrammatical ==
    (Done /\ strict) =>
        \A k \in Splits(postcode) :
            result = Return(SubSeq(postcode, 1, k),
                            SubSeq(postcode, k + 1, Len(postcode)))

\* a one-letter zone and one digit, then an inward code: the matcher has to
\* give back the second digit it took for the district
C2_Witness ==
    /\ Returned
    /\ strict
    /\ Splits(postcode) = {2}

(***************************************************************************)
(* C3: a pair returned in strict mode has an outward code of one of the    *)
(* five shapes or GIR, an inward code that is empty or a digit and two     *)
(* inward letters, and GIR only with 0AA or the empty inward code.         *)
(***************************************************************************)
C3_StrictReturnsValid ==
    (Returned /\ strict) =>
        /\ IsOutward(result.outcode) \/ result.outcode = GIR
        /\ result.incode = <<>> \/ IsInward(result.incode)
        /\ result.outcode = GIR => result.incode \in {<<>>, ZeroAA}

\* the Girobank postcode returned
C3_Witness ==
    /\ Returned
    /\ strict
    /\ result.outcode = GIR
    /\ result.incode = ZeroAA

(***************************************************************************)
(* C4: in strict mode a returned pair with a non-empty inward code is the  *)
(* whole normalized input: outward code followed by inward code, nothing   *)
(* left over.                                                              *)
(***************************************************************************)
C4_NoTrailingGarbage ==
    (Returned /\ strict /\ result.incode # <<>>) =>
        result.outcode \o result.incode = Normalized

(***************************************************************************)
(* C5: in strict mode an input whose normalized form is an outward code    *)
(* and nothing else fails with IncodeNotFound when incode_mandatory, and   *)
(* returns (outward code, empty) when not.                                 *)
(***************************************************************************)
C5_StrictOutwardOnly ==
    (Done /\ strict /\ IsOutward(Normalized)) =>
        result = IF incode_mandatory
                 THEN Raise("IncodeNotFoundError")
                 ELSE Return(Normalized, <<>>)

\* an outward code typed with a space or in lower case, returned
C5_Witness ==
    /\ Returned
    /\ strict
    /\ IsOutward(Normalized)
    /\ postcode # Normalized

(***************************************************************************)
(* C6: in strict mode GIR0AA returns (GIR, 0AA); GIR returns (GIR, empty)  *)
(* or fails with IncodeNotFound as incode_mandatory says; every other      *)
(* normalized input that begins with GIR fails with InvalidPostcode (with  *)
(* its specialization MaxLengthExceeded, by C1, when it is longer than 7). *)
(***************************************************************************)
C6_GirobankExact ==
    (Done /\ strict /\ StartsWith(Normalized, GIR)) =>
        IF Normalized = GIR0AA
        THEN result = Return(GIR, ZeroAA)
        ELSE IF Normalized = GIR
        THEN result = IF incode_mandatory
                      THEN Raise("IncodeNotFoundError")
                      ELSE Return(GIR, <<>>)
        ELSE /\ result.raised # "None"
             /\ IsSubclass(result.raised, "InvalidPostcodeError")
             /\ Len(Normalized) <= 7 => result.raised = "InvalidPostcodeError"

\* GIR0AA and one more character, rejected
C6_Witness ==
    /\ Raised("InvalidPostcodeError")
    /\ strict
    /\ Len(Normalized) = 7
    /\ StartsWith(Normalized, GIR0AA)

(***************************************************************************)
(* C7: in strict mode a call fails with InvalidPostcode itself exactly     *)
(* when the normalized input has at most 7 characters and is none of: an   *)
(* outward code followed by an inward code, an outward code alone, GIR0AA, *)
(* GIR.                                                                    *)
(***************************************************************************)
Recognised(s) ==
    \/ Splits(s) # {}
    \/ IsOutward(s)
    \/ s \in {GIR0AA, GIR}

C7_InvalidIffUnrecognised ==
    (Done /\ strict) =>
        (result.raised = "InvalidPostcodeError"
         <=> (Len(Normalized) <= 7 /\ ~Recognised(Normalized)))

(***************************************************************************)
(* C8: in non-strict mode an input whose normalized form has 5, 6 or 7     *)
(* characters returns (all but the last three, the last three), nothing    *)
(* being validated and incode_mandatory making no difference.              *)
(***************************************************************************)
C8_ChopLastThree ==
    (Done /\ ~strict /\ Len(Normalized) \in 5..7) =>
        /\ result.raised = "None"
        /\ Len(result.incode) = 3
        /\ result.outcode \o result.incode = Normalized

\* a seven-character input that strict mode rejects, chopped
C8_Witness ==
    /\ Returned
    /\ ~strict
    /\ incode_mandatory
    /\ Len(Normalized) = 7
    /\ ~Recognised(Normalized)

(***************************************************************************)
(* C9: in non-strict mode an input whose normalized form has at most 4     *)
(* characters is an outward code as a whole: IncodeNotFound when           *)
(* incode_mandatory, (normalized, empty) when not; one of 5 characters is  *)
(* split.                                                                  *)
(***************************************************************************)
C9_ShortIsOutwardOnly ==
    (Done /\ ~strict) =>
        /\ Len(Normalized) <= 4 =>
               result = IF incode_mandatory
                        THEN Raise("IncodeNotFoundError")
                        ELSE Return(Normalized, <<>>)
        /\ Len(Normalized) = 5 =>
               /\ result.raised = "None"
               /\ Len(result.outcode) = 2
               /\ Len(result.incode) = 3

\* a four-character input returned whole
C9_Witness ==
    /\ Returned
    /\ ~strict
    /\ Len(Normalized) = 4
    /\ result.outcode = Normalized
    /\ result.incode = <<>>

(***************************************************************************)
(* C10: a call with strict = false never fails with InvalidPostcode        *)
(* itself: it returns a pair, or fails with MaxLengthExceeded or           *)
(* IncodeNotFound.                                                         *)
(***************************************************************************)
C10_NonStrictNeverInvalid ==
    (Done /\ ~strict) =>
        result.raised \in {"None", "MaxLengthExceededError", "IncodeNotFoundError"}

\* a short input with no recognised shape, failing for its missing incode
C10_Witness ==
    /\ Raised("IncodeNotFoundError")
    /\ ~strict
    /\ ~Recognised(Normalized)

(***************************************************************************)
(* The input as the properties C11 and C12 speak of it: the characters of  *)
(* blanks removed, the letters in upper case.                              *)
(***************************************************************************)
Canonical(s, blanks) == Upper(SelectSeq(s, LAMBDA c : c \notin blanks))

IsLower(c) == \E i \in 1..Len(LowerLetters) : LowerLetters[i] = c

Pair == result.outcode \o result.incode

\* what the same call gives with incode_mandatory = false
Lenient == parse_uk_postcode(postcode, strict, FALSE)

(***************************************************************************)
(* C11 as stated: the outcome of a call is the outcome of the call on the  *)
(* input with all its whitespace (space, tab, newline) removed and its     *)
(* letters in upper case, so inputs that differ only in whitespace and in  *)
(* case have the same outcome.                                             *)
(***************************************************************************)
C11_WhitespaceAndCaseIgnored ==
    Done => result = parse_uk_postcode(Canonical(postcode, Whitespace),
                                       strict, incode_mandatory)

(***************************************************************************)
(* C11 as amended: the outcome of a call is the outcome of the call on the *)
(* input with its space characters removed and its letters in upper case,  *)
(* so inputs that differ only in space characters and in case have the     *)
(* same outcome.                                                           *)
(***************************************************************************)
C11_SpacesAndCaseIgnored ==
    Done => result = parse_uk_postcode(Canonical(postcode, {" "}),
                                       strict, incode_mandatory)

\* a postcode typed in lower case with a space inside, returned in strict mode
C11_Witness ==
    /\ Returned
    /\ strict
    /\ result.incode # <<>>
    /\ \E i \in 2..(Len(postcode) - 1) : postcode[i] = " "
    /\ \E i \in 1..Len(postcode) : IsLower(postcode[i])

(***************************************************************************)
(* C12 as stated: the two strings of a returned pair hold no whitespace    *)
(* character and no lower-case letter, in either mode.                     *)
(***************************************************************************)
C12_NoWhitespaceNoLower ==
    Returned =>
        \A i \in 1..Len(Pair) : Pair[i] \notin Whitespace /\ ~IsLower(Pair[i])

(***************************************************************************)
(* C12 as amended: the two strings of a returned pair hold no space        *)
(* character and no lower-case letter, in either mode; in strict mode they *)
(* hold no whitespace character of any kind.                               *)
(***************************************************************************)
C12_NoSpaceNoLower ==
    Returned =>
        /\ \A i \in 1..Len(Pair) : Pair[i] # " " /\ ~IsLower(Pair[i])
        /\ strict => \A i \in 1..Len(Pair) : Pair[i] \notin Whitespace

\* a pair returned in non-strict mode for an input with a space and a
\* lower-case letter
C12_Witness ==
    /\ Returned
    /\ ~strict
    /\ \E i \in 1..Len(postcode) : postcode[i] = " "
    /\ \E i \in 1..Len(postcode) : IsLower(postcode[i])

(***************************************************************************)
(* C13: in a returned pair the outward and the inward code have at most 7  *)
(* characters together, and the inward code has 0 or 3.                    *)
(***************************************************************************)
C13_PairLengths ==
    Returned =>
        /\ Len(result.outcode) + Len(result.incode) <= 7
        /\ Len(result.incode) \in {0, 3}

\* a pair of seven characters
C13_Witness ==
    /\ Returned
    /\ Len(result.outcode) = 4
    /\ Len(result.incode) = 3

(***************************************************************************)
(* C14: incode_mandatory = true gives the outcome of incode_mandatory =    *)
(* false, except that where that one returns an empty inward code it fails *)
(* with IncodeNotFound; so true never returns an empty inward code and     *)
(* false never fails with IncodeNotFound.                                  *)
(***************************************************************************)
C14_MandatoryOnlyForMissingIncode ==
    Done =>
        /\ incode_mandatory =>
               LET lenient == Lenient
               IN  result = IF lenient.raised = "None" /\ lenient.incode = <<>>
                            THEN Raise("IncodeNotFoundError")
                            ELSE lenient
        /\ incode_mandatory /\ result.raised = "None" => result.incode # <<>>
        /\ ~incode_mandatory => result.raised # "IncodeNotFoundError"

\* GIR alone in strict mode, with the incode mandatory
C14_Witness ==
    /\ Raised("IncodeNotFoundError")
    /\ strict
    /\ incode_mandatory
    /\ Lenient = Return(GIR, <<>>)

(***************************************************************************)
(* C15: every failure is an InvalidPostcode and a ValueError; its class is *)
(* MaxLengthExceeded for an over-length input, IncodeNotFound for a        *)
(* missing mandatory inward code, and InvalidPostcode itself otherwise,    *)
(* which happens in strict mode only.                                      *)
(***************************************************************************)
C15_FailureClasses ==
    (Done /\ result.raised # "None") =>
        /\ IsSubclass(result.raised, "InvalidPostcodeError")
        /\ IsSubclass(result.raised, "ValueError")
        /\ result.raised =
               IF Len(Normalized) > 7 THEN "MaxLengthExceededError"
               ELSE LET lenient == Lenient
                    IN  IF lenient.raised = "None" /\ lenient.incode = <<>>
                        THEN "IncodeNotFoundError"
                        ELSE "InvalidPostcodeError"
        /\ result.raised = "InvalidPostcodeError" => strict

\* an over-length input, failing
C15_Witness ==
    /\ Raised("MaxLengthExceededError")
    /\ ~strict
    /\ Len(Normalized) = 8

(***************************************************************************)
(* C16: in strict mode w1m 4zz and w1m fail with InvalidPostcode, whatever *)
(* incode_mandatory is.                                                    *)
(***************************************************************************)
W1M == <<"W", "1", "M">>

C16_W1MRejected ==
    (Done /\ strict /\ Normalized \in {W1M \o <<"4", "Z", "Z">>, W1M}) =>
        result.raised = "InvalidPostcodeError"

(***************************************************************************)
(* C17: over any sequence and overlap of calls, no call changes what the   *)
(* patterns were compiled from, and the outcome of every call is the       *)
(* outcome its three arguments have with the patterns as import left them; *)
(* so two calls with the same arguments have the same outcome.             *)
(***************************************************************************)
SameArguments ==
    /\ other.postcode = postcode
    /\ other.strict = strict
    /\ other.incode_mandatory = incode_mandatory

C17_PureAndDeterministic ==
    /\ compiled = Compiled
    /\ Done => result = parse_uk_postcode(postcode, strict, incode_mandatory)
    /\ other.pc = "done" =>
           other.result = parse_uk_postcode(other.postcode, other.strict,
                                            other.incode_mandatory)
    /\ (Done /\ other.pc = "done" /\ SameArguments) => other.result = result

\* the two callers have made the same call, and both have the pair
C17_Witness ==
    /\ Returned
    /\ other.pc = "done"
    /\ SameArguments
    /\ other.result = result
    /\ result.incode # <<>>

(***************************************************************************)
(* C18: a pair that strict mode returns is the pair that non-strict mode   *)
(* returns for the same input and the same incode_mandatory.               *)
(***************************************************************************)
C18_StrictRefinesNonStrict ==
    (Returned /\ strict) =>
        parse_uk_postcode(postcode, FALSE, incode_mandatory) = result

(***************************************************************************)
(* C19: a returned pair parses to itself: the call on the outward code     *)
(* followed by the inward code, with the same strict and incode_mandatory, *)
(* returns the same pair.                                                  *)
(***************************************************************************)
C19_ReparseStable ==
    Returned => parse_uk_postcode(Pair, strict, incode_mandatory) = result

\* a strict pair that is not the whole input
C19_Witness ==
    /\ Returned
    /\ strict
    /\ Pair # Normalized

====
